---- MODULE Spec2Model ----
(***************************************************************************)
(* Model of the parallel action executor of src-cli                        *)
(* (cmd/src/actions_exec_backend.go): the lock-protected status map with   *)
(* its delta merge, allPatches, and the start/wait run with bounded        *)
(* concurrency.                                                            *)
(***************************************************************************)
EXTENDS Naturals, Sequences, FiniteSets, TLC

VARIABLES
    now,            \* the wall clock read by time.Now()
    repos,          \* x.repos: map ActionRepo -> ActionRepoStatus
    reposMu,        \* x.reposMu: "free" or the thread holding it
    observed,       \* <<m>> for the map m last handed to x.opt.onUpdate (<<>>: never called)
    hist,           \* history: per repository, the updateRepoStatus arguments in lock order
    patchesRet,     \* the slice an allPatches() call has just returned (NoResult: none has)
    onUpdate,       \* x.opt.onUpdate != nil
    parallelism,    \* the limit given to parallel.NewRun
    startPc,        \* where start() is: "idle", "snapshot", "total", "loop", "returned"
    allRepos,       \* start()'s local slice allRepos
    idx,            \* start()'s loop position in allRepos (the next index to dispatch)
    totalSteps,     \* the value last given to progress.SetTotalSteps
    jobs,           \* progress: IncJobs minus DecJobs
    gpc,            \* per repository, its goroutine: "none", "running", "updating", "returned", "done"
    gerr,           \* per repository, the error its do returns ("nil": none)
    permits,        \* par: permits acquired and not yet released
    parErr,         \* par: the first error given to Error ("nil": none)
    errSeq,         \* history: the errors given to par.Error, in order
    doneEnqueuing,  \* x.doneEnqueuing is closed
    done,           \* x.done is closed
    waitPc,         \* where wait() is: "idle", "enqueuing", "joining", "returned"
    waitRet,        \* the error wait() returned
    samplerPc,      \* the sampler goroutine: "none", "check", "lock", "locked", "exited"
    observing,      \* the threads inside a call of x.opt.onUpdate
    updObserved,    \* history: the calls of x.opt.onUpdate made by updateRepoStatus
    ctxDone         \* the ctx given to start is cancelled

statusVars == <<now, repos, reposMu, observed, hist, patchesRet, observing, updObserved>>
optVars == <<onUpdate, parallelism>>
runVars == <<startPc, allRepos, idx, totalSteps, jobs, gpc, gerr, permits, parErr,
             errSeq, doneEnqueuing, done, waitPc, waitRet, samplerPc>>
ctlVars == <<ctxDone>>
vars == <<statusVars, optVars, ctlVars, runVars>>

(***************************************************************************)
(* Bounds of the model.                                                    *)
(***************************************************************************)
MaxTime == 2        \* the clock runs over 1..MaxTime
MaxCalls == 3       \* updateRepoStatus calls made through the bare API
MaxPar == 2         \* parallelism is drawn from 1..MaxPar
NumSteps == 2       \* len(x.action.Steps)

Repos == {"A", "B", "C"}
StatusRepos == {"A", "B"}
Callers == {"caller"}
Patches == {"P1", "P2"}

(***************************************************************************)
(* ActionRepoStatus and its zero value.  A zero time.Time is 0, the empty  *)
(* string is "", PatchInput{} is "" and a nil error is "nil".              *)
(***************************************************************************)
Fields == {"LogFile", "EnqueuedAt", "StartedAt", "FinishedAt", "Patch", "Err"}

ZeroOf(f) ==
    CASE f = "LogFile" -> ""
      [] f = "Patch" -> ""
      [] f = "Err" -> "nil"
      [] OTHER -> 0

ZeroStatus == [f \in Fields |-> ZeroOf(f)]

\* x.repos[repo] of a Go map: the zero value for a missing key.
Lookup(m, repo) == IF repo \in DOMAIN m THEN m[repo] ELSE ZeroStatus

\* x.repos[repo] = status
Store(m, repo, status) ==
    [r \in (DOMAIN m) \cup {repo} |-> IF r = repo THEN status ELSE m[r]]

EmptyMap == [r \in {} |-> ZeroStatus]

\* No allPatches() call has just returned: a value no returned slice has.
NoResult == <<"none">>

\* The mutant: the delta update replaces the record instead of merging it.
deltaUpdateReplace(prev, status) == status

\* The mutant: the Err field is taken from the incoming status alone.
deltaUpdateDropErr(prev, status) ==
    [f \in Fields |->
        IF f # "Err" /\ status[f] = ZeroOf(f) THEN prev[f] ELSE status[f]]

\* A merge in which the first StartedAt recorded for a repository is kept.
deltaUpdateFirstStarted(prev, status) ==
    [f \in Fields |->
        IF status[f] = ZeroOf(f) \/ (f = "StartedAt" /\ prev[f] # 0)
        THEN prev[f] ELSE status[f]]

\* A merge in which an update that supplies a patch clears a recorded error.
deltaUpdateClearErrOnPatch(prev, status) ==
    [f \in Fields |->
        IF f = "Err" /\ status.Patch # "" THEN status.Err
        ELSE IF status[f] = ZeroOf(f) THEN prev[f] ELSE status[f]]

\* "Perform delta update": each zero field of status is taken from prev.
deltaUpdate(prev, status) ==
    [f \in Fields |-> IF status[f] = ZeroOf(f) THEN prev[f] ELSE status[f]]

\* The mutant: the observer is called before the merged status is stored.
updateRepoStatusObserveFirst(t, repo, status) ==
    /\ reposMu = "free"
    /\ reposMu' = t
    /\ repos' = Store(repos, repo, deltaUpdate(Lookup(repos, repo), status))
    /\ observed' = IF onUpdate THEN <<repos>> ELSE observed
    /\ observing' = IF onUpdate THEN observing \cup {t} ELSE observing
    /\ updObserved' = IF onUpdate THEN updObserved + 1 ELSE updObserved
    /\ hist' = [hist EXCEPT ![repo] = Append(@, status)]
    /\ patchesRet' = NoResult
    /\ UNCHANGED now

(***************************************************************************)
(* updateRepoStatus, run by thread t.  The whole body runs with reposMu    *)
(* held; the deferred Unlock is the thread's next step (Unlock below).     *)
(***************************************************************************)
updateRepoStatus(t, repo, status) ==
    /\ reposMu = "free"
    /\ reposMu' = t
    /\ repos' = Store(repos, repo, deltaUpdate(Lookup(repos, repo), status))
    /\ observed' = IF onUpdate THEN <<repos'>> ELSE observed
    /\ observing' = IF onUpdate THEN observing \cup {t} ELSE observing
    /\ updObserved' = IF onUpdate THEN updObserved + 1 ELSE updObserved
    /\ hist' = [hist EXCEPT ![repo] = Append(@, status)]
    /\ patchesRet' = NoResult
    /\ UNCHANGED now

\* The observer, if one was called, returns; then x.reposMu.Unlock().
Unlock(t) ==
    /\ reposMu = t
    /\ reposMu' = "free"
    /\ observing' = observing \ {t}
    /\ UNCHANGED <<now, repos, observed, hist, patchesRet, updObserved>>

\* enqueueRepo: updateRepoStatus(repo, ActionRepoStatus{EnqueuedAt: time.Now()})
enqueueRepo(t, repo) ==
    updateRepoStatus(t, repo, [ZeroStatus EXCEPT !.EnqueuedAt = now])

\* The orders in which a range over a map with key set S can visit the keys.
Orders(S) ==
    {o \in [1..Cardinality(S) -> S] : \A i, j \in 1..Cardinality(S) : o[i] = o[j] => i = j}

\* The mutant: allPatches without the Err check.
RECURSIVE allPatchesNoErr(_, _)
allPatchesNoErr(m, order) ==
    IF order = <<>> THEN <<>>
    ELSE LET status == m[Head(order)]
         IN  (IF status.Patch # "" THEN <<status.Patch>> ELSE <<>>)
                 \o allPatchesNoErr(m, Tail(order))

\* The mutant: allPatches with the Err check inverted.
RECURSIVE allPatchesErrInverted(_, _)
allPatchesErrInverted(m, order) ==
    IF order = <<>> THEN <<>>
    ELSE LET status == m[Head(order)]
         IN  (IF status.Patch # "" /\ status.Err # "nil" THEN <<status.Patch>> ELSE <<>>)
                 \o allPatchesErrInverted(m, Tail(order))

\* The loop of allPatches over the map m, visiting its keys in the given order.
RECURSIVE allPatches(_, _)
allPatches(m, order) ==
    IF order = <<>> THEN <<>>
    ELSE LET status == m[Head(order)]
         IN  (IF status.Patch # "" /\ status.Err = "nil" THEN <<status.Patch>> ELSE <<>>)
                 \o allPatches(m, Tail(order))

\* allPatches(), run by thread t: the loop under the lock.  (The capacity of the
\* slice, len(x.repos) read before Lock, does not show in the slice returned.)
callAllPatches(t) ==
    /\ reposMu = "free"
    /\ reposMu' = t
    /\ \E order \in Orders(DOMAIN repos) : patchesRet' = allPatches(repos, order)
    /\ UNCHANGED <<now, repos, observed, hist, observing, updObserved>>

\* The clock advances.
Tick ==
    /\ now < MaxTime
    /\ now' = now + 1
    /\ UNCHANGED <<repos, reposMu, observed, hist, patchesRet, observing, updObserved,
                   optVars, ctlVars, runVars>>

(***************************************************************************)
(* The status API under arbitrary callers: the statuses a caller passes.   *)
(***************************************************************************)
StatusInputs(t) ==
    {[ZeroStatus EXCEPT !.LogFile = "log", !.StartedAt = t],
     [ZeroStatus EXCEPT !.FinishedAt = t],
     [ZeroStatus EXCEPT !.FinishedAt = t, !.Patch = "P1"],
     [ZeroStatus EXCEPT !.FinishedAt = t, !.Err = "E1"],
     [ZeroStatus EXCEPT !.Patch = "P2"]}

TotalCalls == Len(hist["A"]) + Len(hist["B"]) + Len(hist["C"])

ApiUpdate ==
    /\ TotalCalls < MaxCalls
    /\ \E c \in Callers, repo \in StatusRepos, status \in StatusInputs(now) :
           updateRepoStatus(c, repo, status)
    /\ UNCHANGED <<optVars, ctlVars, runVars>>

ApiEnqueue ==
    /\ TotalCalls < MaxCalls
    /\ \E c \in Callers, repo \in StatusRepos : enqueueRepo(c, repo)
    /\ UNCHANGED <<optVars, ctlVars, runVars>>

ApiAllPatches ==
    /\ \E c \in Callers : callAllPatches(c)
    /\ UNCHANGED <<optVars, ctlVars, runVars>>

ApiUnlock ==
    /\ \E c \in Callers : Unlock(c)
    /\ UNCHANGED <<optVars, ctlVars, runVars>>

(***************************************************************************)
(* newActionExecutor.                                                      *)
(***************************************************************************)
Init ==
    /\ now = 1
    /\ repos = EmptyMap
    /\ reposMu = "free"
    /\ observed = <<>>
    /\ hist = [r \in Repos |-> <<>>]
    /\ patchesRet = NoResult
    /\ onUpdate \in BOOLEAN
    /\ parallelism \in 1..MaxPar
    /\ startPc = "idle"
    /\ allRepos = <<>>
    /\ idx = 1
    /\ totalSteps = 0
    /\ jobs = 0
    /\ gpc = [r \in Repos |-> "none"]
    /\ gerr = [r \in Repos |-> "nil"]
    /\ permits = 0
    /\ parErr = "nil"
    /\ errSeq = <<>>
    /\ doneEnqueuing = FALSE
    /\ done = FALSE
    /\ waitPc = "idle"
    /\ waitRet = "nil"
    /\ samplerPc = "none"
    /\ observing = {}
    /\ updObserved = 0
    /\ ctxDone = FALSE

StatusInit == Init /\ parallelism = 1

StatusNext == Tick \/ ApiUpdate \/ ApiEnqueue \/ ApiAllPatches \/ ApiUnlock

StatusSpec == StatusInit /\ [][StatusNext]_vars

(***************************************************************************)
(* The bounded concurrency primitive x.par (parallel.Run): N permits, the  *)
(* first error given to Error, a join.                                     *)
(***************************************************************************)
\* Acquire() returns only when fewer than N permits are outstanding.
CanAcquire == permits < parallelism

\* Error(e): the first error is kept.
ParError(e) ==
    /\ parErr' = IF parErr = "nil" THEN e ELSE parErr
    /\ errSeq' = Append(errSeq, e)

\* Wait() returns only when every acquired permit has been released.
CanJoin == permits = 0

(***************************************************************************)
(* do(ctx, repo): runs the steps and records one terminal status, a patch  *)
(* on success and an error on failure, which it then returns.              *)
(***************************************************************************)
PatchOf(repo) == CASE repo = "A" -> "P1" [] repo = "B" -> "P1" [] OTHER -> "P2"

ErrOf(repo) == CASE repo = "A" -> "EA" [] repo = "B" -> "EB" [] OTHER -> "EC"

Outcomes == {"patch", "err"}

TerminalStatus(repo, outcome) ==
    IF outcome = "patch"
    THEN [ZeroStatus EXCEPT !.StartedAt = now, !.FinishedAt = now, !.Patch = PatchOf(repo)]
    ELSE [ZeroStatus EXCEPT !.StartedAt = now, !.FinishedAt = now, !.Err = ErrOf(repo)]

\* do calls updateRepoStatus with its terminal status.
DoUpdate(repo) ==
    /\ gpc[repo] = "running"
    /\ \E outcome \in Outcomes :
           /\ updateRepoStatus(repo, repo, TerminalStatus(repo, outcome))
           /\ gerr' = [gerr EXCEPT ![repo] = IF outcome = "err" THEN ErrOf(repo) ELSE "nil"]
    /\ gpc' = [gpc EXCEPT ![repo] = "updating"]
    /\ UNCHANGED <<optVars, ctlVars, startPc, allRepos, idx, totalSteps, jobs, permits, parErr,
                   errSeq, doneEnqueuing, done, waitPc, waitRet, samplerPc>>

\* updateRepoStatus unlocks and do returns its error.
DoReturn(repo) ==
    /\ gpc[repo] = "updating"
    /\ Unlock(repo)
    /\ gpc' = [gpc EXCEPT ![repo] = "returned"]
    /\ UNCHANGED <<optVars, ctlVars, startPc, allRepos, idx, totalSteps, jobs, gerr, permits, parErr,
                   errSeq, doneEnqueuing, done, waitPc, waitRet, samplerPc>>

(***************************************************************************)
(* start(ctx).                                                             *)
(***************************************************************************)
\* start is called; with an observer it first spawns the sampler goroutine.
StartCall ==
    /\ startPc = "idle"
    /\ startPc' = "snapshot"
    /\ samplerPc' = IF onUpdate THEN "check" ELSE samplerPc
    /\ UNCHANGED <<statusVars, optVars, ctlVars, allRepos, idx, totalSteps, jobs, gpc, gerr, permits,
                   parErr, errSeq, doneEnqueuing, done, waitPc, waitRet>>

\* The mutant: the snapshot lists a repository once more if it was enqueued
\* more than once.
StartSnapshotPerCall ==
    /\ startPc = "snapshot"
    /\ reposMu = "free"
    /\ \E order \in Orders(DOMAIN repos) :
           allRepos' = order \o SelectSeq(order, LAMBDA r : Len(hist[r]) > 1)
    /\ startPc' = "total"
    /\ UNCHANGED <<statusVars, optVars, ctlVars, idx, totalSteps, jobs, gpc, gerr, permits,
                   parErr, errSeq, doneEnqueuing, done, waitPc, waitRet, samplerPc>>

\* Under the lock, allRepos becomes the keys of x.repos in the map's range order.
StartSnapshot ==
    /\ startPc = "snapshot"
    /\ reposMu = "free"
    /\ \E order \in Orders(DOMAIN repos) : allRepos' = order
    /\ startPc' = "total"
    /\ UNCHANGED <<statusVars, optVars, ctlVars, idx, totalSteps, jobs, gpc, gerr, permits,
                   parErr, errSeq, doneEnqueuing, done, waitPc, waitRet, samplerPc>>

\* progress.SetTotalSteps(len(x.repos) * len(x.action.Steps)), after the unlock.
StartSetTotal ==
    /\ startPc = "total"
    /\ totalSteps' = Cardinality(DOMAIN repos) * NumSteps
    /\ startPc' = "loop"
    /\ UNCHANGED <<statusVars, optVars, ctlVars, allRepos, idx, jobs, gpc, gerr, permits,
                   parErr, errSeq, doneEnqueuing, done, waitPc, waitRet, samplerPc>>

\* The mutant: the goroutine reads the loop variable instead of taking the
\* repository as its argument, and finds it at a later element.
DispatchLoopVar ==
    /\ startPc = "loop"
    /\ idx <= Len(allRepos)
    /\ CanAcquire
    /\ permits' = permits + 1
    /\ jobs' = jobs + 1
    /\ \E j \in idx..Len(allRepos) : gpc' = [gpc EXCEPT ![allRepos[j]] = "running"]
    /\ idx' = idx + 1
    /\ UNCHANGED <<statusVars, optVars, ctlVars, startPc, allRepos, totalSteps, gerr,
                   parErr, errSeq, doneEnqueuing, done, waitPc, waitRet, samplerPc>>

\* The mutant: the loop starts the goroutine without Acquire.
DispatchNoAcquire ==
    /\ startPc = "loop"
    /\ idx <= Len(allRepos)
    /\ permits' = permits + 1
    /\ jobs' = jobs + 1
    /\ gpc' = [gpc EXCEPT ![allRepos[idx]] = "running"]
    /\ idx' = idx + 1
    /\ UNCHANGED <<statusVars, optVars, ctlVars, startPc, allRepos, totalSteps, gerr,
                   parErr, errSeq, doneEnqueuing, done, waitPc, waitRet, samplerPc>>

\* One iteration of the loop: Acquire, IncJobs, and the goroutine is started.
Dispatch ==
    /\ startPc = "loop"
    /\ idx <= Len(allRepos)
    /\ CanAcquire
    /\ permits' = permits + 1
    /\ jobs' = jobs + 1
    /\ gpc' = [gpc EXCEPT ![allRepos[idx]] = "running"]
    /\ idx' = idx + 1
    /\ UNCHANGED <<statusVars, optVars, ctlVars, startPc, allRepos, totalSteps, gerr,
                   parErr, errSeq, doneEnqueuing, done, waitPc, waitRet, samplerPc>>

\* The mutant: start returns without closing doneEnqueuing.
StartReturnNoClose ==
    /\ startPc = "loop"
    /\ idx > Len(allRepos)
    /\ startPc' = "returned"
    /\ UNCHANGED <<statusVars, optVars, ctlVars, allRepos, idx, totalSteps, jobs, gpc, gerr, permits,
                   parErr, errSeq, doneEnqueuing, done, waitPc, waitRet, samplerPc>>

\* The loop is over: close(x.doneEnqueuing).
StartReturn ==
    /\ startPc = "loop"
    /\ idx > Len(allRepos)
    /\ doneEnqueuing' = TRUE
    /\ startPc' = "returned"
    /\ UNCHANGED <<statusVars, optVars, ctlVars, allRepos, idx, totalSteps, jobs, gpc, gerr, permits,
                   parErr, errSeq, done, waitPc, waitRet, samplerPc>>

\* The mutant: a failed goroutine reports its error and ends without Release.
GoExitErrNoRelease(repo) ==
    /\ gpc[repo] = "returned"
    /\ IF gerr[repo] # "nil"
       THEN ParError(gerr[repo]) /\ UNCHANGED <<jobs, permits>>
       ELSE /\ UNCHANGED <<parErr, errSeq>>
            /\ jobs' = jobs - 1
            /\ permits' = permits - 1
    /\ gpc' = [gpc EXCEPT ![repo] = "done"]
    /\ UNCHANGED <<statusVars, optVars, ctlVars, startPc, allRepos, idx, totalSteps, gerr,
                   doneEnqueuing, done, waitPc, waitRet, samplerPc>>

\* The mutant: the goroutine drops the error of do.
GoExitNoReport(repo) ==
    /\ gpc[repo] = "returned"
    /\ jobs' = jobs - 1
    /\ permits' = permits - 1
    /\ gpc' = [gpc EXCEPT ![repo] = "done"]
    /\ UNCHANGED <<statusVars, optVars, ctlVars, startPc, allRepos, idx, totalSteps, gerr, parErr,
                   errSeq, doneEnqueuing, done, waitPc, waitRet, samplerPc>>

\* The goroutine after do: x.par.Error(err) if err != nil, then the deferred
\* DecJobs and Release.
GoExit(repo) ==
    /\ gpc[repo] = "returned"
    /\ IF gerr[repo] # "nil" THEN ParError(gerr[repo]) ELSE UNCHANGED <<parErr, errSeq>>
    /\ jobs' = jobs - 1
    /\ permits' = permits - 1
    /\ gpc' = [gpc EXCEPT ![repo] = "done"]
    /\ UNCHANGED <<statusVars, optVars, ctlVars, startPc, allRepos, idx, totalSteps, gerr,
                   doneEnqueuing, done, waitPc, waitRet, samplerPc>>

(***************************************************************************)
(* The sampler goroutine of start.                                         *)
(***************************************************************************)
\* select { case <-x.done: return; default: }
SamplerCheck ==
    /\ samplerPc = "check"
    /\ samplerPc' = IF done THEN "exited" ELSE "lock"
    /\ UNCHANGED <<statusVars, optVars, ctlVars, startPc, allRepos, idx, totalSteps, jobs, gpc, gerr,
                   permits, parErr, errSeq, doneEnqueuing, done, waitPc, waitRet>>

\* The mutant: the sampler calls the observer without taking the lock.
SamplerLockNoLock ==
    /\ samplerPc = "lock"
    /\ observed' = <<repos>>
    /\ observing' = observing \cup {"sampler"}
    /\ samplerPc' = "locked"
    /\ UNCHANGED <<now, repos, reposMu, hist, patchesRet, updObserved, optVars, ctxDone,
                   startPc, allRepos, idx, totalSteps, jobs, gpc, gerr, permits, parErr,
                   errSeq, doneEnqueuing, done, waitPc, waitRet>>

\* x.reposMu.Lock(); x.opt.onUpdate(x.repos)
SamplerLock ==
    /\ samplerPc = "lock"
    /\ reposMu = "free"
    /\ reposMu' = "sampler"
    /\ observed' = <<repos>>
    /\ observing' = observing \cup {"sampler"}
    /\ samplerPc' = "locked"
    /\ UNCHANGED <<now, repos, hist, patchesRet, updObserved, optVars, ctxDone, startPc, allRepos, idx, totalSteps,
                   jobs, gpc, gerr, permits, parErr, errSeq, doneEnqueuing, done, waitPc,
                   waitRet>>

\* x.reposMu.Unlock(); time.Sleep(50 * time.Millisecond)
SamplerUnlock ==
    /\ samplerPc = "locked"
    /\ Unlock("sampler")
    /\ samplerPc' = "check"
    /\ UNCHANGED <<optVars, ctlVars, startPc, allRepos, idx, totalSteps, jobs, gpc, gerr, permits,
                   parErr, errSeq, doneEnqueuing, done, waitPc, waitRet>>

(***************************************************************************)
(* wait().                                                                 *)
(***************************************************************************)
\* wait is called and blocks on <-x.doneEnqueuing.
WaitCall ==
    /\ waitPc = "idle"
    /\ waitPc' = "enqueuing"
    /\ UNCHANGED <<statusVars, optVars, ctlVars, startPc, allRepos, idx, totalSteps, jobs, gpc, gerr,
                   permits, parErr, errSeq, doneEnqueuing, done, waitRet, samplerPc>>

\* The mutant: wait does not wait for doneEnqueuing.
WaitEnqueuedNoBlock ==
    /\ waitPc = "enqueuing"
    /\ waitPc' = "joining"
    /\ UNCHANGED <<statusVars, optVars, ctlVars, startPc, allRepos, idx, totalSteps, jobs, gpc, gerr,
                   permits, parErr, errSeq, doneEnqueuing, done, waitRet, samplerPc>>

\* <-x.doneEnqueuing
WaitEnqueued ==
    /\ waitPc = "enqueuing"
    /\ doneEnqueuing
    /\ waitPc' = "joining"
    /\ UNCHANGED <<statusVars, optVars, ctlVars, startPc, allRepos, idx, totalSteps, jobs, gpc, gerr,
                   permits, parErr, errSeq, doneEnqueuing, done, waitRet, samplerPc>>

\* The mutant: wait returns the error recorded so far without joining.
WaitReturnNoJoin ==
    /\ waitPc = "joining"
    /\ waitRet' = parErr
    /\ done' = TRUE
    /\ waitPc' = "returned"
    /\ UNCHANGED <<statusVars, optVars, ctlVars, startPc, allRepos, idx, totalSteps, jobs, gpc, gerr,
                   permits, parErr, errSeq, doneEnqueuing, samplerPc>>

\* err := x.par.Wait(); close(x.done); return err
WaitReturn ==
    /\ waitPc = "joining"
    /\ CanJoin
    /\ waitRet' = parErr
    /\ done' = TRUE
    /\ waitPc' = "returned"
    /\ UNCHANGED <<statusVars, optVars, ctlVars, startPc, allRepos, idx, totalSteps, jobs, gpc, gerr,
                   permits, parErr, errSeq, doneEnqueuing, samplerPc>>

(***************************************************************************)
(* The caller of the executor around a run.                                *)
(***************************************************************************)
\* The caller enqueues a repository it has not enqueued yet, before or during
\* the run.
RunEnqueue ==
    /\ \E repo \in Repos \ DOMAIN repos : enqueueRepo("caller", repo)
    /\ UNCHANGED <<optVars, ctlVars, runVars>>

RunUnlock ==
    /\ Unlock("caller")
    /\ UNCHANGED <<optVars, ctlVars, runVars>>

\* The caller asks for the patches once wait has returned.
RunAllPatches ==
    /\ waitPc = "returned"
    /\ callAllPatches("caller")
    /\ UNCHANGED <<optVars, ctlVars, runVars>>

\* A run.  The clock stands still during it: what the timestamps do to the
\* status map is the subject of StatusSpec.
Next ==
    \/ RunEnqueue \/ RunUnlock \/ RunAllPatches
    \/ StartCall \/ StartSnapshot \/ StartSetTotal \/ Dispatch \/ StartReturn
    \/ \E repo \in Repos : DoUpdate(repo) \/ DoReturn(repo) \/ GoExit(repo)
    \/ SamplerCheck \/ SamplerLock \/ SamplerUnlock
    \/ WaitCall \/ WaitEnqueued \/ WaitReturn

Spec == Init /\ [][Next]_vars

(***************************************************************************)
(* The run under the Go scheduler: every goroutine that can take a step    *)
(* eventually takes it, and sync.Mutex hands the lock to a goroutine that  *)
(* keeps waiting for it (starvation mode), so a Lock that can succeed      *)
(* again and again eventually does.  The caller calls start and wait.      *)
(***************************************************************************)
Fairness ==
    /\ WF_vars(RunUnlock)
    /\ WF_vars(StartCall) /\ SF_vars(StartSnapshot) /\ WF_vars(StartSetTotal)
    /\ WF_vars(Dispatch) /\ WF_vars(StartReturn)
    /\ \A repo \in Repos :
           SF_vars(DoUpdate(repo)) /\ WF_vars(DoReturn(repo)) /\ WF_vars(GoExit(repo))
    /\ WF_vars(SamplerUnlock)
    /\ WF_vars(WaitCall) /\ WF_vars(WaitEnqueued) /\ WF_vars(WaitReturn)

FairSpec == Init /\ [][Next]_vars /\ Fairness

(***************************************************************************)
(* A run whose ctx the caller may cancel.                                  *)
(***************************************************************************)
\* The caller cancels the ctx it gave to start(ctx); start passes ctx to do
\* (line 134) and reads it nowhere else.
Cancel ==
    /\ startPc # "idle"
    /\ ~ctxDone
    /\ ctxDone' = TRUE
    /\ UNCHANGED <<statusVars, optVars, runVars>>

CancelNext == Next \/ Cancel

CancelSpec == Init /\ [][CancelNext]_vars

(***************************************************************************)
(* A run whose caller, before it calls start(), enqueues repositories any  *)
(* number of times while the clock advances.                               *)
(***************************************************************************)
EarlyEnqueue ==
    /\ startPc = "idle"
    /\ ApiEnqueue

EnqueueNext ==
    \/ Tick \/ EarlyEnqueue \/ RunUnlock \/ RunAllPatches
    \/ StartCall \/ StartSnapshot \/ StartSetTotal \/ Dispatch \/ StartReturn
    \/ \E repo \in Repos : DoUpdate(repo) \/ DoReturn(repo) \/ GoExit(repo)
    \/ SamplerCheck \/ SamplerLock \/ SamplerUnlock
    \/ WaitCall \/ WaitEnqueued \/ WaitReturn

EnqueueSpec == Init /\ [][EnqueueNext]_vars

Snapshot == {allRepos[i] : i \in 1..Len(allRepos)}

RunComplete ==
    /\ startPc = "returned"
    /\ idx = Len(allRepos) + 1
    /\ \A r \in Snapshot : gpc[r] = "done" /\ repos[r].FinishedAt # 0
    /\ waitPc = "returned"

(***************************************************************************)
(* Properties of the status map.                                           *)
(***************************************************************************)
\* The value of field f after the calls h: that of the latest call whose f was
\* not empty, found by going back from the last call.
RECURSIVE LastNonEmpty(_, _)
LastNonEmpty(h, f) ==
    IF h = <<>> THEN ZeroOf(f)
    ELSE IF h[Len(h)][f] # ZeroOf(f) THEN h[Len(h)][f]
    ELSE LastNonEmpty(SubSeq(h, 1, Len(h) - 1), f)

\* C1: after any sequence of updateRepoStatus calls on a repository, taken in
\* the order in which they obtained the lock, each field of the stored status
\* is the value of the latest call whose field was not empty (so a field that
\* was ever set is never empty again), and a repository has a record exactly
\* when it has been the subject of a call.
C1_LastNonEmptyWins ==
    \A r \in Repos :
        /\ r \in DOMAIN repos <=> hist[r] # <<>>
        /\ r \in DOMAIN repos => \A f \in Fields : repos[r][f] = LastNonEmpty(hist[r], f)

\* C1 witness: a patch was set, then replaced by a later call, and a third call
\* with no patch and no finished timestamp erased neither.
C1_Witness ==
    \E r \in DOMAIN repos :
        /\ Len(hist[r]) = 3
        /\ hist[r][1].Patch = "P1" /\ hist[r][1].FinishedAt # 0
        /\ hist[r][2].Patch = "P2" /\ hist[r][2].FinishedAt = 0
        /\ hist[r][3].Patch = "" /\ hist[r][3].FinishedAt = 0
        /\ repos[r].Patch = "P2" /\ repos[r].FinishedAt = hist[r][1].FinishedAt

\* How often p occurs in the slice seq.
Count(seq, p) == Cardinality({i \in 1..Len(seq) : seq[i] = p})

\* The repositories whose stored status has a patch and no error.
Collectable == {r \in DOMAIN repos : repos[r].Patch # "" /\ repos[r].Err = "nil"}

\* C2: the slice allPatches() returns holds exactly one patch for each
\* repository whose stored status has Err == nil and a non-zero Patch, and
\* nothing else.
C2_AllPatchesExact ==
    patchesRet # NoResult =>
        /\ Len(patchesRet) = Cardinality(Collectable)
        /\ \A p \in Patches :
               Count(patchesRet, p) = Cardinality({r \in Collectable : repos[r].Patch = p})

\* C2 witness: allPatches() returned the patch of one repository and left out
\* a repository with a patch and an error.
C2_Witness ==
    /\ patchesRet # NoResult
    /\ Len(patchesRet) = 1
    /\ \E r \in DOMAIN repos : repos[r].Patch # "" /\ repos[r].Err # "nil"

\* Some call of the history h supplied field f.
Supplied(h, f) == \E i \in 1..Len(h) : h[i][f] # ZeroOf(f)

\* C10 as stated: no stored status carries both a patch and an error.
C10_Original ==
    \A r \in DOMAIN repos : ~(repos[r].Patch # "" /\ repos[r].Err # "nil")

\* C10 amended: a stored status has a patch exactly when some update of the
\* repository supplied one, and an error exactly when some update supplied
\* one; so it carries both exactly when both were supplied.
C10_BothOnlyIfSupplied ==
    \A r \in DOMAIN repos :
        /\ repos[r].Patch # "" <=> Supplied(hist[r], "Patch")
        /\ repos[r].Err # "nil" <=> Supplied(hist[r], "Err")

\* C10 witness: a finished status with a patch from one call and an error from
\* another.
C10_Witness ==
    \E r \in DOMAIN repos :
        /\ repos[r].FinishedAt # 0 /\ repos[r].Patch # "" /\ repos[r].Err # "nil"
        /\ \A i \in 1..Len(hist[r]) : hist[r][i].Patch = "" \/ hist[r][i].Err = "nil"

(***************************************************************************)
(* The order of the timestamps of a stored status.                         *)
(***************************************************************************)
TimeFields == <<"EnqueuedAt", "StartedAt", "FinishedAt">>

\* The timestamps of status s that are set are in the order enqueued,
\* started, finished.
TimeOrdered(s) ==
    \A i, j \in 1..3 :
        (i < j /\ s[TimeFields[i]] # 0 /\ s[TimeFields[j]] # 0)
            => s[TimeFields[i]] <= s[TimeFields[j]]

\* The position in the history h of the last call that supplied field f, 0 if
\* no call did.
LastSupplied(h, f) ==
    IF Supplied(h, f)
    THEN CHOOSE i \in 1..Len(h) :
             /\ h[i][f] # ZeroOf(f)
             /\ \A k \in (i+1)..Len(h) : h[k][f] = ZeroOf(f)
    ELSE 0

\* C11 as stated: after any sequence of enqueueRepo and updateRepoStatus calls
\* the set timestamps of every stored status are in the order enqueued,
\* started, finished.
C11_Original == \A r \in DOMAIN repos : TimeOrdered(repos[r])

\* C11 amended: the set timestamps of a stored status are in the order
\* enqueued, started, finished whenever the calls that last supplied them,
\* each with the time of its call, were made in that order.
C11_OrderedIfSuppliedInOrder ==
    \A r \in DOMAIN repos :
        (\A i, j \in 1..3 :
            (i < j /\ Supplied(hist[r], TimeFields[i]) /\ Supplied(hist[r], TimeFields[j]))
                => LastSupplied(hist[r], TimeFields[i]) <= LastSupplied(hist[r], TimeFields[j]))
        => TimeOrdered(repos[r])

\* C11 witness: a repository enqueued, started and finished by three calls in
\* that order, the clock having advanced in between.
C11_Witness ==
    \E r \in DOMAIN repos :
        /\ Len(hist[r]) = 3
        /\ hist[r][1].EnqueuedAt # 0 /\ hist[r][2].StartedAt # 0 /\ hist[r][3].FinishedAt # 0
        /\ repos[r].EnqueuedAt <= repos[r].StartedAt
        /\ repos[r].StartedAt <= repos[r].FinishedAt
        /\ repos[r].EnqueuedAt < repos[r].FinishedAt

(***************************************************************************)
(* The observer calls of updateRepoStatus.                                 *)
(***************************************************************************)
\* A thread is in updateRepoStatus (enqueueRepo included) and has not returned.
InUpdate == reposMu \in Callers /\ patchesRet = NoResult

\* C15: with an observer configured, updateRepoStatus (and so enqueueRepo)
\* has called it once per call, the last time before the call returns and
\* with the whole current map, the status this call merged already stored in
\* it; with none configured no observer is called.
C15_ObserverOncePerUpdate ==
    IF onUpdate
    THEN /\ updObserved = TotalCalls
         /\ observing = IF InUpdate THEN {reposMu} ELSE {}
         /\ TotalCalls > 0 =>
                /\ observed = <<repos>>
                /\ \A r \in DOMAIN repos :
                       \A f \in Fields :
                           observed[1][r][f] = LastNonEmpty(hist[r], f)
    ELSE updObserved = 0 /\ observed = <<>> /\ observing = {}

\* C15 witness: the third call is in updateRepoStatus, past the observer call
\* and not yet returned; the observer was given both repositories, the one
\* updated carrying the finish time and patch this call merged into it.
C15_Witness ==
    /\ onUpdate
    /\ InUpdate
    /\ updObserved = 3
    /\ DOMAIN observed[1] = {"A", "B"}
    /\ \E r \in {"A", "B"} :
           /\ Len(hist[r]) = 2
           /\ hist[r][1].EnqueuedAt # 0
           /\ hist[r][2].Patch # ""
           /\ observed[1][r].EnqueuedAt # 0 /\ observed[1][r].Patch = hist[r][2].Patch

(***************************************************************************)
(* A recorded error stays.                                                 *)
(***************************************************************************)
\* A repository whose record has an error has one after the step.
C20_ErrStays ==
    \A r \in DOMAIN repos : repos[r].Err # "nil" => repos'[r].Err # "nil"

\* A repository for which some call supplied an error has one, and the slice
\* allPatches() returned holds no patch of a repository with an error: each
\* patch occurs at most as often as repositories without an error carry it.
C20_NoPatchOfFailed ==
    /\ \A r \in DOMAIN repos : Supplied(hist[r], "Err") => repos[r].Err # "nil"
    /\ patchesRet # NoResult =>
           \A p \in Patches :
               Count(patchesRet, p) <=
                   Cardinality({r \in DOMAIN repos :
                                   repos[r].Err = "nil" /\ repos[r].Patch = p})

\* C20: once the stored status of a repository has an error, no later
\* updateRepoStatus makes it nil, and allPatches() does not include the
\* repository from then on, also after a later update recorded a patch for it.
C20_ErrorPermanent == [][C20_ErrStays]_vars /\ []C20_NoPatchOfFailed

\* C20 witness: a repository failed, a later update recorded a patch for it,
\* and allPatches() then returned nothing.
C20_Witness ==
    /\ \E r \in DOMAIN repos :
           /\ Len(hist[r]) = 2
           /\ hist[r][1].Err # "nil"
           /\ hist[r][2].Patch # "" /\ hist[r][2].Err = "nil"
           /\ repos[r].Err # "nil" /\ repos[r].Patch # ""
    /\ patchesRet = <<>>

(***************************************************************************)
(* Properties of a run.                                                    *)
(***************************************************************************)
\* The repositories whose do has started and not yet returned.
InDo == {r \in Repos : gpc[r] \in {"running", "updating"}}

\* C3: at most parallelism do invocations have started and not yet returned.
C3_AtMostNRunning == Cardinality(InDo) <= parallelism

\* C3 witness: as many do invocations as the limit allows are running while a
\* snapshotted repository waits to be dispatched.
C3_Witness ==
    /\ startPc = "loop"
    /\ idx <= Len(allRepos)
    /\ parallelism = 2
    /\ Cardinality(InDo) = parallelism

\* C4: under fair scheduling start() issues every dispatch, every snapshotted
\* repository reaches a terminal status and its goroutine ends, and wait()
\* returns.
C4_RunCompletes == <>RunComplete

\* C4 witness: a run of three repositories under a lower limit is complete.
C4_Witness ==
    /\ RunComplete
    /\ Len(allRepos) = 3
    /\ parallelism < Len(allRepos)

\* C5: once the do of some repository has failed, every repository of the
\* snapshot is still dispatched and its goroutine still runs to its end.
C5_FailureIsolated ==
    (\E r \in Repos : gerr[r] # "nil")
        ~> (idx = Len(allRepos) + 1 /\ \A r \in Snapshot : gpc[r] = "done")

\* C5 witness: with one permit, the first repository failed and the two
\* dispatched after it recorded their patches and ended.
C5_Witness ==
    /\ Len(allRepos) = 3
    /\ parallelism = 1
    /\ gerr[allRepos[1]] # "nil"
    /\ \A i \in 2..3 : gpc[allRepos[i]] = "done" /\ repos[allRepos[i]].Patch # ""

\* C6: wait() has returned only if start() has closed doneEnqueuing after
\* dispatching every snapshotted repository and every dispatched goroutine has
\* returned from do and released its permit.
C6_WaitAfterAll ==
    waitPc = "returned" =>
        /\ doneEnqueuing
        /\ startPc = "returned"
        /\ idx = Len(allRepos) + 1
        /\ \A r \in Snapshot : gpc[r] = "done"
        /\ permits = 0

\* C6 witness: wait() returned from a run of three repositories.
C6_Witness ==
    /\ waitPc = "returned"
    /\ Len(allRepos) = 3

\* C7: wait() returns an error exactly when some dispatched do returned one,
\* and it is the first error given to par.Error.
C7_WaitError ==
    waitPc = "returned" =>
        /\ waitRet # "nil" <=> \E r \in Snapshot : gerr[r] # "nil"
        /\ errSeq # <<>> => waitRet = errSeq[1]
        /\ errSeq = <<>> => waitRet = "nil"

\* C7 witness: two do invocations failed and wait() returned the error reported
\* first.
C7_Witness ==
    /\ waitPc = "returned"
    /\ Len(errSeq) >= 2
    /\ waitRet = errSeq[1]
    /\ errSeq[1] # errSeq[2]

\* The snapshotted repositories whose do returned no error.
Succeeded == {r \in Snapshot : gpc[r] = "done" /\ gerr[r] = "nil"}

\* C8: the slice allPatches() returns after wait() is, for a run in which each
\* do recorded one terminal status, exactly the patches of the repositories
\* whose do succeeded, every do of the snapshot having ended.
C8_EndToEnd ==
    patchesRet # NoResult =>
        /\ \A r \in Snapshot : gpc[r] = "done"
        /\ Len(patchesRet) = Cardinality(Succeeded)
        /\ \A p \in Patches :
               Count(patchesRet, p) = Cardinality({r \in Succeeded : PatchOf(r) = p})

\* C8 witness: repositories A, B, C with two permits; A and C succeeded, B
\* failed; wait() returned an error and allPatches() returned P1 and P2.
C8_Witness ==
    /\ Snapshot = {"A", "B", "C"}
    /\ parallelism = 2
    /\ gerr["A"] = "nil" /\ gerr["B"] = "EB" /\ gerr["C"] = "nil"
    /\ waitPc = "returned" /\ waitRet # "nil"
    /\ patchesRet \in {<<"P1", "P2">>, <<"P2", "P1">>}

\* C9 as stated: a wait() called while nothing is enqueued is not blocked on
\* any signal.
C9_Original ==
    (waitPc = "enqueuing" /\ DOMAIN repos = {}) => doneEnqueuing

\* C9 amended: once start() has taken an empty snapshot, a wait() that is past
\* doneEnqueuing finds no outstanding work and no error, and returns nil.
C9_EmptyRunReturnsNil ==
    (startPc \in {"total", "loop", "returned"} /\ allRepos = <<>>
            /\ waitPc \in {"joining", "returned"}) =>
        /\ doneEnqueuing
        /\ CanJoin
        /\ parErr = "nil"
        /\ waitPc = "returned" => waitRet = "nil"

\* C9 witness: wait() returned nil from a run with nothing enqueued.
C9_Witness ==
    /\ DOMAIN repos = {}
    /\ startPc = "returned" /\ allRepos = <<>>
    /\ waitPc = "returned" /\ waitRet = "nil"

\* The repositories for which a goroutine was dispatched.
Dispatched == {r \in Repos : gpc[r] # "none"}

\* Once the snapshot is taken it lists no repository twice, the dispatched
\* repositories are those before the loop index, and start() returns only
\* after it has dispatched all of them.
C12_DispatchedIsPrefix ==
    IF startPc \in {"idle", "snapshot"}
    THEN Dispatched = {}
    ELSE /\ Len(allRepos) = Cardinality(Snapshot)
         /\ Dispatched = {allRepos[i] : i \in 1..(idx - 1)}
         /\ startPc = "returned" => Dispatched = Snapshot

\* The snapshot step copies the key set of the map, the snapshot never changes
\* afterwards, a do is started only for the element at the loop index, which
\* had none before, and a do that was started is never started again.
C12_DispatchStep ==
    /\ (startPc = "snapshot" /\ startPc' = "total") =>
           {allRepos'[i] : i \in 1..Len(allRepos')} = DOMAIN repos
    /\ startPc \notin {"idle", "snapshot"} => allRepos' = allRepos
    /\ \A r \in Repos :
           /\ (gpc[r] = "none" /\ gpc'[r] # "none") =>
                  /\ startPc = "loop" /\ idx <= Len(allRepos) /\ r = allRepos[idx]
                  /\ gpc'[r] = "running" /\ idx' = idx + 1
           /\ gpc[r] # "none" =>
                  /\ gpc'[r] # "none"
                  /\ gpc'[r] = "running" => gpc[r] = "running"
    /\ idx' # idx =>
           /\ idx' = idx + 1
           /\ gpc[allRepos[idx]] = "none" /\ gpc'[allRepos[idx]] = "running"

\* C12: the repositories dispatched are exactly the keys the map had when
\* start() took its snapshot, do is started exactly once for each of them, and
\* a repository enqueued after the snapshot is never dispatched.
C12_SnapshotDispatchedOnce == []C12_DispatchedIsPrefix /\ [][C12_DispatchStep]_vars

\* C12 witness: start() has returned from a run of two repositories, both
\* dispatched, and a third enqueued after the snapshot has no goroutine.
C12_Witness ==
    /\ startPc = "returned"
    /\ Cardinality(Snapshot) = 2
    /\ Dispatched = Snapshot
    /\ \E r \in DOMAIN repos : r \notin Snapshot /\ gpc[r] = "none"

\* C13 as stated: once ctx is cancelled, no do is started for a repository
\* that had none at the moment of cancellation.
C13_Original ==
    [][ctxDone => \A r \in Repos : gpc[r] = "none" => gpc'[r] = "none"]_vars

\* C13 witness: ctx was cancelled before the last repository of the snapshot
\* was dispatched, and no do has been started for it.
C13_Witness ==
    /\ ctxDone
    /\ startPc = "loop"
    /\ idx = Len(allRepos)
    /\ gpc[allRepos[idx]] = "none"

\* This step is an enqueueRepo(r) made before start() for a repository that is
\* in the map already.
ReEnqueued(r) ==
    /\ startPc = "idle"
    /\ r \in DOMAIN repos
    /\ hist'[r] = Append(hist[r], [ZeroStatus EXCEPT !.EnqueuedAt = now])

\* C14 as stated: an enqueueRepo for a repository already enqueued, made
\* before start(), leaves the map as it was.
C14_Original ==
    [][\A r \in StatusRepos : ReEnqueued(r) => repos' = repos]_vars

\* An enqueueRepo for a repository already enqueued keeps the key set and
\* every other record, and changes of that record only EnqueuedAt, which
\* becomes the time of this call.
C14_ReEnqueueStep ==
    \A r \in StatusRepos :
        ReEnqueued(r) =>
            /\ DOMAIN repos' = DOMAIN repos
            /\ \A q \in DOMAIN repos \ {r} : repos'[q] = repos[q]
            /\ \A f \in Fields \ {"EnqueuedAt"} : repos'[r][f] = repos[r][f]
            /\ repos'[r].EnqueuedAt = now

\* The snapshot lists once each repository, however often it was enqueued,
\* and start() returns only after starting its do.
C14_SnapshotListsOnce ==
    startPc \in {"total", "loop", "returned"} =>
        \A r \in DOMAIN repos :
            /\ Len(hist[r]) > 0 =>
                   Cardinality({i \in 1..Len(allRepos) : allRepos[i] = r}) <= 1
            /\ (r \in Snapshot /\ startPc = "returned") => gpc[r] # "none"

\* C14 amended: before start(), a second enqueueRepo of a repository keeps the
\* key set and every field of its record but EnqueuedAt, which takes the time
\* of the second call; start() then dispatches the repository exactly once.
C14_ReEnqueueKeepsAllButTime ==
    /\ [][C14_ReEnqueueStep]_vars
    /\ []C14_SnapshotListsOnce
    /\ [][\A r \in Repos : (gpc'[r] = "running" /\ gpc[r] # "running") => gpc[r] = "none"]_vars

\* C14 witness: a repository enqueued twice, the second time later than the
\* first, carries the later time and has run its one do to the end.
C14_Witness ==
    \E r \in Snapshot :
        /\ Len(hist[r]) >= 2
        /\ hist[r][1].EnqueuedAt < hist[r][2].EnqueuedAt
        /\ repos[r].EnqueuedAt = hist[r][2].EnqueuedAt
        /\ startPc = "returned"
        /\ gpc[r] = "done"

\* Some thread, the ones inside the observer included, can enter
\* updateRepoStatus, enqueueRepo or allPatches, or the sampler can tick.
CanEnterExecutor ==
    \/ \E t \in Callers \cup Repos \cup {"sampler"}, repo \in Repos :
           \/ ENABLED enqueueRepo(t, repo)
           \/ \E status \in StatusInputs(now) : ENABLED updateRepoStatus(t, repo, status)
           \/ ENABLED callAllPatches(t)
    \/ ENABLED RunEnqueue
    \/ \E repo \in Repos : ENABLED DoUpdate(repo)
    \/ ENABLED SamplerLock

\* While a thread is inside the observer it holds reposMu, it is the only one
\* inside, and no status update, allPatches or sampler tick can go ahead.
C16_ObservingHoldsLock ==
    /\ Cardinality(observing) <= 1
    /\ \A t \in observing : reposMu = t
    /\ observing # {} => ~CanEnterExecutor

\* C16: every observer call, from a status update or from the sampler, is
\* made by a thread that holds reposMu: no two calls overlap, no step taken
\* during one changes the map, and for as long as one lasts (for ever, if the
\* observer re-enters the executor or does not return) every status update
\* and every sampler tick is blocked.
C16_ObserverUnderLock ==
    []C16_ObservingHoldsLock /\ [][observing # {} => repos' = repos]_vars

\* C16 witness: the sampler is inside the observer while the goroutine of a
\* dispatched repository has its terminal status to record.
C16_Witness ==
    /\ observing = {"sampler"}
    /\ reposMu = "sampler"
    /\ \E r \in Snapshot : gpc[r] = "running"

\* This step is an observer call of the sampler.
SamplerObserves == samplerPc = "lock" /\ samplerPc' = "locked"

\* C17 as stated: once wait() has closed done, the sampler makes no further
\* observer call.
C17_Original == [][done => ~SamplerObserves]_vars

\* C17 witness: done is closed while the sampler, past its test of done, is
\* about to lock and call the observer.
C17_Witness ==
    /\ done
    /\ waitPc = "returned"
    /\ samplerPc = "lock"

\* C18 as stated, for the read of len(x.repos) in start(): start() holds
\* reposMu when it reads the map, so it can read only while no other thread
\* holds the lock.
C18_Original == ENABLED StartSetTotal => reposMu = "free"

\* C18 witness: start() is about to read len(x.repos) while the caller is
\* inside enqueueRepo, holding the lock, having stored a repository the
\* snapshot does not list.
C18_Witness ==
    /\ startPc = "total"
    /\ reposMu = "caller"
    /\ DOMAIN repos # Snapshot

\* C19 as stated: the total start() gives the progress display is the number
\* of repositories in its snapshot times the number of steps.
C19_Original ==
    startPc \in {"loop", "returned"} => totalSteps = Len(allRepos) * NumSteps

\* C19 witness: start() has set the total of a run whose snapshot lists one
\* repository while the map holds two.
C19_Witness ==
    /\ startPc = "loop"
    /\ Len(allRepos) = 1
    /\ Cardinality(DOMAIN repos) = 2

====
